---------------------------- MODULE Spec2Model ----------------------------
(***************************************************************************)
(* A model of the slack/twitter bot of src/slack_client.py and             *)
(* src/twitter_client.py: the session state of SlackClient (filters,       *)
(* current_channel, the registered twitter client, the main loop), the     *)
(* stream and the stream handler of TwitterClient, the command dispatch    *)
(* of handle_message, and the other events a run receives: goodbye, OS     *)
(* signals, and the statuses and errors of the twitter stream.             *)
(*                                                                         *)
(* Text is modelled as a sequence of one-character strings, so that the    *)
(* parsing of a command (re.sub, strip, split, join) is computed as the    *)
(* code computes it.                                                       *)
(***************************************************************************)
EXTENDS Naturals, Sequences, FiniteSets, TLC

VARIABLES
    filters,          \* SlackClient.filters: the list of filter terms
    current_channel,  \* SlackClient.current_channel
    twitter_client,   \* SlackClient.twitter_client: "None" or "registered"
    stream,           \* TwitterClient.stream: is it set, is it running, its terms
    stream_handler,   \* TwitterClient.stream_handler: "None" or a function
    signal_handler,   \* the function attached to SIGINT, SIGTERM and SIGHUP
    opened,           \* number of tweepy.Stream objects opened so far
    loop,             \* the RTMClient future: "created", "connecting" (run()
                      \* waits on it, no 'hello' yet), "running", "stopped"
    raised,           \* the exception that ended the last dispatch, or "none"
    cleanups,         \* number of log_banner_stop calls made by run()
    sent,             \* the chat_postMessage calls made by the last dispatch
    last,             \* the last event dispatched, the filters before it,
                      \* whether the event before it was an add, del or clear
                      \* command and changed the filters, and what on_status
                      \* or on_error did and answered
    access,           \* the thread that made the last step, and the
                      \* attributes of the session that step read or wrote
    feed              \* the events this run delivers: a name of Feeds

vars == <<filters, current_channel, twitter_client, stream, stream_handler,
          signal_handler, opened, loop, raised, cleanups, sent, last, access,
          feed>>

-----------------------------------------------------------------------------
(* Bounds of the model. *)

\* an add command is only fed to the model while the list stays this short
MaxFilters == 3

-----------------------------------------------------------------------------
(* Python string operations, on sequences of characters. *)

Whitespace == {" ", "\t", "\n"}

IsPrefix(p, s) == Len(p) <= Len(s) /\ SubSeq(s, 1, Len(p)) = p

\* re.search(pattern, s) for a pattern without regex metacharacters
re_search(pat, s) ==
    \E i \in 1..(Len(s) + 1) : IsPrefix(pat, SubSeq(s, i, Len(s)))

\* re.sub(pattern, '', s): every leftmost non-overlapping match removed
RECURSIVE re_sub(_, _)
re_sub(pat, s) ==
    IF s = <<>> THEN <<>>
    ELSE IF pat # <<>> /\ IsPrefix(pat, s)
         THEN re_sub(pat, SubSeq(s, Len(pat) + 1, Len(s)))
         ELSE <<Head(s)>> \o re_sub(pat, Tail(s))

RECURSIVE lstrip(_)
lstrip(s) ==
    IF s # <<>> /\ Head(s) \in Whitespace THEN lstrip(Tail(s)) ELSE s

RECURSIVE rstrip(_)
rstrip(s) ==
    IF s # <<>> /\ s[Len(s)] \in Whitespace
    THEN rstrip(SubSeq(s, 1, Len(s) - 1)) ELSE s

\* str.strip()
strip(s) == rstrip(lstrip(s))

\* str.split(): split on runs of whitespace, no empty words
RECURSIVE split_acc(_, _, _)
split_acc(s, word, acc) ==
    IF s = <<>>
    THEN IF word = <<>> THEN acc ELSE Append(acc, word)
    ELSE IF Head(s) \in Whitespace
         THEN split_acc(Tail(s), <<>>,
                        IF word = <<>> THEN acc ELSE Append(acc, word))
         ELSE split_acc(Tail(s), Append(word, Head(s)), acc)

split(s) == split_acc(s, <<>>, <<>>)

\* str.split(sep) for a one-character separator: empty pieces are kept
RECURSIVE split_sep_acc(_, _, _, _)
split_sep_acc(s, sep, piece, acc) ==
    IF s = <<>> THEN Append(acc, piece)
    ELSE IF Head(s) = sep
         THEN split_sep_acc(Tail(s), sep, <<>>, Append(acc, piece))
         ELSE split_sep_acc(Tail(s), sep, Append(piece, Head(s)), acc)

split_sep(s, sep) == split_sep_acc(s, sep, <<>>, <<>>)

\* sep.join(words)
RECURSIVE join(_, _)
join(sep, words) ==
    IF words = <<>> THEN <<>>
    ELSE IF Len(words) = 1 THEN words[1]
         ELSE words[1] \o sep \o join(sep, Tail(words))

\* x in list
In(x, list) == \E i \in 1..Len(list) : list[i] = x

\* list.remove(x): the first occurrence of x removed
RECURSIVE list_remove(_, _)
list_remove(list, x) ==
    IF list = <<>> THEN <<>>
    ELSE IF Head(list) = x THEN Tail(list)
         ELSE <<Head(list)>> \o list_remove(Tail(list), x)

-----------------------------------------------------------------------------
(* Character sequences of the program's string literals. *)

bot_id == <<"B">>

\* f'<@{self.bot_id}>'
bot_id_regex == <<"<", "@">> \o bot_id \o <<">">>

w_help  == <<"h", "e", "l", "p">>
w_ping  == <<"p", "i", "n", "g">>
w_exit  == <<"e", "x", "i", "t">>
w_quit  == <<"q", "u", "i", "t">>
w_list  == <<"l", "i", "s", "t">>
w_clear == <<"c", "l", "e", "a", "r">>
w_add   == <<"a", "d", "d">>
w_del   == <<"d", "e", "l">>
w_None  == <<"N", "o", "n", "e">>

\* the farewell messages of handle_exit
exit_messages ==
    <<"Adios!", "Until next time!", "Take it easy!", "Au revoir!",
      "Later alligator!">>

\* the headers of handle_ping
ping_messages ==
    <<"Reporting for duty....", "At your service...",
      "Ask and you shall recieve...">>

\* the comments of handle_unknown
comments ==
    <<"You know I don't speak spanish...",
      "Nobody knows what it means, but it's provocative",
      "Aim for the bushes...",
      "I'm a peacock, you gotta let me fly!",
      "Did I hear a 'niner' in there?",
      "Maybe there's some sort of a translation problem...">>

\* the exceptions chat_postMessage raises that run() names
SlackErrors ==
    {"SlackApiError", "SlackClientNotConnectedError", "SlackClientError"}

\* the outcome of one chat_postMessage call
SendResults == {"ok"} \cup SlackErrors

-----------------------------------------------------------------------------
(* The handlers of SlackClient, as functions of the state they read. *)

\* one chat_postMessage call: the message as the web client receives it
Message(channel, kind, header, body) ==
    [channel |-> channel, kind |-> kind, header |-> header, body |-> body]

\* what a handler that makes one send leaves behind: the filter list, the
\* messages sent, and the exception it raised ("none": it returned)
Outcome(fs, msg, res) ==
    [filters |-> fs,
     sent    |-> IF res = "ok" THEN <<msg>> ELSE <<>>,
     exc     |-> IF res = "ok" THEN "none" ELSE res]

\* parse_filters without the strip of each piece
parse_filters_nostrip(words) ==
    IF Len(words) > 1
    THEN split_sep(join(<<" ">>, words), ",")
    ELSE words

\* the parsing of the words after add / del
parse_filters(words) ==
    IF Len(words) > 1
    THEN LET pieces == split_sep(join(<<" ">>, words), ",")
         IN  [i \in 1..Len(pieces) |-> strip(pieces[i])]
    ELSE words

\* the loop of handle_add without the test 'filt not in self.filters'
RECURSIVE add_loop_nocheck(_, _, _)
add_loop_nocheck(fs, terms, text) ==
    IF terms = <<>> THEN [filters |-> fs, text |-> text]
    ELSE add_loop_nocheck(Append(fs, Head(terms)), Tail(terms),
                          text \o Head(terms) \o <<"\n">>)

\* the loop of handle_add with insert(0, filt) in place of append(filt)
RECURSIVE add_loop_prepend(_, _, _)
add_loop_prepend(fs, terms, text) ==
    IF terms = <<>> THEN [filters |-> fs, text |-> text]
    ELSE IF ~In(Head(terms), fs)
         THEN add_loop_prepend(<<Head(terms)>> \o fs, Tail(terms),
                               text \o Head(terms) \o <<"\n">>)
         ELSE add_loop_prepend(fs, Tail(terms), text)

\* the loop of handle_add with every supplied term written to added_filters
RECURSIVE add_loop_lists_all(_, _, _)
add_loop_lists_all(fs, terms, text) ==
    IF terms = <<>> THEN [filters |-> fs, text |-> text]
    ELSE add_loop_lists_all(IF In(Head(terms), fs) THEN fs
                            ELSE Append(fs, Head(terms)),
                            Tail(terms), text \o Head(terms) \o <<"\n">>)

\* the loop of handle_add: fs the filter list, text the added_filters string
RECURSIVE add_loop(_, _, _)
add_loop(fs, terms, text) ==
    IF terms = <<>> THEN [filters |-> fs, text |-> text]
    ELSE IF ~In(Head(terms), fs)
         THEN add_loop(Append(fs, Head(terms)), Tail(terms),
                       text \o Head(terms) \o <<"\n">>)
         ELSE add_loop(fs, Tail(terms), text)

handle_add(fs, channel, words, res) ==
    LET r == add_loop(fs, parse_filters(words), <<>>)
    IN  Outcome(r.filters,
                Message(channel, "add", "I've added the following filters...",
                        r.text),
                res)

\* the loop of handle_del with a break after the first deleted term
RECURSIVE del_loop_break(_, _, _)
del_loop_break(fs, terms, text) ==
    IF terms = <<>> THEN [filters |-> fs, text |-> text]
    ELSE IF In(Head(terms), fs)
         THEN [filters |-> list_remove(fs, Head(terms)),
               text |-> text \o Head(terms) \o <<"\n">>]
         ELSE del_loop_break(fs, Tail(terms), text)

\* the loop of handle_del
RECURSIVE del_loop(_, _, _)
del_loop(fs, terms, text) ==
    IF terms = <<>> THEN [filters |-> fs, text |-> text]
    ELSE IF In(Head(terms), fs)
         THEN del_loop(list_remove(fs, Head(terms)), Tail(terms),
                       text \o Head(terms) \o <<"\n">>)
         ELSE del_loop(fs, Tail(terms), text)

handle_del(fs, channel, words, res) ==
    LET r == del_loop(fs, parse_filters(words), <<>>)
    IN  Outcome(r.filters,
                Message(channel, "del", "All good!", r.text),
                res)

\* handle_clear without 'self.filters = []'
handle_clear_keep(fs, channel, res) ==
    Outcome(fs, Message(channel, "clear", "All filters cleared", <<>>), res)

handle_clear(fs, channel, res) ==
    Outcome(<<>>, Message(channel, "clear", "All filters cleared", <<>>), res)

\* the filter_string of handle_list
filter_string(fs) ==
    IF fs = <<>> THEN w_None ELSE join(<<"\n">>, fs)

handle_list(fs, channel, res) ==
    Outcome(fs, Message(channel, "list", "Here you go...", filter_string(fs)),
            res)

handle_help(fs, channel, message, res) ==
    Outcome(fs, Message(channel, "help", message, <<>>), res)

\* a handle_ping that empties the filter list
handle_ping_resets(fs, channel, rand_num, res) ==
    Outcome(<<>>, Message(channel, "ping", ping_messages[rand_num + 1], <<>>),
            res)

handle_ping(fs, channel, rand_num, res) ==
    Outcome(fs, Message(channel, "ping", ping_messages[rand_num + 1], <<>>),
            res)

\* a handle_unknown that opens its reply as the help command does
handle_unknown_plain(fs, channel, rand_num, res) ==
    handle_help(fs, channel, "Hi! Here's what I can do...", res)

handle_unknown(fs, channel, rand_num, res) ==
    handle_help(fs, channel, comments[rand_num + 1], res)

\* a handle_exit that sends the farewell and does not cancel the future
handle_exit_nocancel(fs, channel, rand_num, res) ==
    Outcome(fs, Message(channel, "exit", exit_messages[rand_num + 1], <<>>),
            res)

\* the farewell is sent, then self.future.cancel() ends the loop
handle_exit(fs, channel, rand_num, res) ==
    LET o == Outcome(fs,
                     Message(channel, "exit", exit_messages[rand_num + 1],
                             <<>>),
                     res)
    IN  [o EXCEPT !.exc = IF res = "ok" THEN "CancelledError" ELSE res]

\* a tweet_handler that sends to the channel the session starts with
tweet_handler_initial(channel, tweet, res) ==
    [sent   |-> IF res = "ok"
                THEN <<Message("", "tweet", "", tweet.text)>> ELSE <<>>,
     exc    |-> IF res = "ok" THEN "none" ELSE res,
     result |-> "None"]

\* the text of the tweet is sent to the channel; the method has no return
\* statement, so a call that returns answers None
tweet_handler(channel, tweet, res) ==
    [sent   |-> IF res = "ok"
                THEN <<Message(channel, "tweet", "", tweet.text)>> ELSE <<>>,
     exc    |-> IF res = "ok" THEN "none" ELSE res,
     result |-> "None"]

-----------------------------------------------------------------------------
(* TwitterClient. *)

\* self.stream = None
NoStream == [is_set |-> FALSE, running |-> FALSE, track |-> <<>>]

\* create_filtered_stream without the test 'if not self.stream'
create_filtered_stream_unguarded(st, n, fs) ==
    [stream |-> [is_set |-> TRUE, running |-> TRUE, track |-> fs],
     opened |-> n + 1]

\* the stream and the number of streams opened after the call
create_filtered_stream(st, n, fs) ==
    IF ~st.is_set
    THEN [stream |-> [is_set |-> TRUE, running |-> TRUE, track |-> fs],
          opened |-> n + 1]
    ELSE [stream |-> st, opened |-> n]

\* the functions a stream handler can be: tweet_handler of the session, or
\* a function of the wiring code that answers True or answers False
Handlers == {"tweet_handler", "returns_True", "returns_False"}

\* self.stream_handler(tweet): what was sent, the exception raised, and
\* the answer
call_handler(handler, channel, tweet, res) ==
    IF handler = "tweet_handler" THEN tweet_handler(channel, tweet, res)
    ELSE [sent   |-> <<>>,
          exc    |-> "none",
          result |-> IF handler = "returns_True" THEN "True" ELSE "False"]

\* an on_status that hands retweets to the handler too
on_status_all(handler, channel, tweet, res) ==
    IF handler # "None"
    THEN [calls |-> 1] @@ call_handler(handler, channel, tweet, res)
    ELSE [calls |-> 0, sent |-> <<>>, exc |-> "none", result |-> "True"]

\* an on_status that answers True whatever the handler answers
on_status_true(handler, channel, tweet, res) ==
    IF handler # "None" /\ ~tweet.retweeted
    THEN [call_handler(handler, channel, tweet, res) EXCEPT !.result = "True"]
         @@ [calls |-> 1]
    ELSE [calls |-> 0, sent |-> <<>>, exc |-> "none", result |-> "True"]

\* on_status: the number of calls of the handler, and what the call left
on_status(handler, channel, tweet, res) ==
    IF handler # "None" /\ ~tweet.retweeted
    THEN [calls |-> 1] @@ call_handler(handler, channel, tweet, res)
    ELSE [calls |-> 0, sent |-> <<>>, exc |-> "none", result |-> "True"]

\* the status code of 'too many connection attempts'
RateLimited == 420

\* on_error: the answers the call can give; the answer to a code other
\* than 420 is the one of the base class of the library
on_error(status_code) ==
    IF status_code = RateLimited THEN {"False"} ELSE {"True", "False"}

\* the stream after a callback gave an answer or raised: it goes on unless
\* the answer is False or an exception left the callback
after_callback(st, result, exc) ==
    [st EXCEPT !.running = st.running /\ exc = "none" /\ result # "False"]

-----------------------------------------------------------------------------
(* The inbound events the model feeds to the session. *)

Channels == {"C1", "C2"}

sp == <<" ">>

\* the texts after "add"
AddArgs ==
    { <<" ", "a">>,
      <<" ", "b">>,
      <<" ", "a", ",", "b">>,
      <<" ", "a", ",", "b", " ", ",", " ", "c">>,
      <<" ", "a", " ", ",", " ", "a">>,
      <<" ", "a", ",", " ", ",", "b">> }

\* the texts after "del"
DelArgs ==
    { <<" ", "a">>,
      <<" ", "a", ",", "b">>,
      <<" ", "a", ",", " ", "c">>,
      <<" ", "b", " ", ",", "b">> }

\* the words that form a command alone
SingleWords == {w_help, w_ping, w_exit, w_quit, w_list, w_clear}

\* a mention of the bot followed by text t
mention(t) == bot_id_regex \o t

\* payload['data'] of a 'message' event
event(text, channel) ==
    [has_text |-> TRUE, text |-> text, channel |-> channel]

\* a 'message' event without text
no_text(channel) == [has_text |-> FALSE, text |-> <<>>, channel |-> channel]

\* the events of a run that exercises the filter commands on one channel
FilterFeed ==
    { event(mention(sp \o w_add \o a), "C1") : a \in AddArgs }
    \cup { event(mention(sp \o w_del \o a), "C1") : a \in DelArgs }
    \cup { event(mention(sp \o w_clear), "C1"),
           event(mention(sp \o w_list), "C1"),
           event(w_add \o <<" ", "a">>, "C1") }

\* the events of a run that exercises every command, on two channels
SessionFeed ==
    { event(mention(sp \o w), "C1") : w \in SingleWords }
    \cup { event(mention(sp \o w_add \o <<" ", "a">>), "C1"),
           event(mention(sp \o w_del \o <<" ", "a">>), "C1"),
           event(mention(sp \o w_add), "C1"),
           event(mention(sp \o w_del), "C1"),
           event(mention(sp \o w_list \o <<" ", "a">>), "C1"),
           event(mention(<<" ", "h", "i">>), "C1"),
           event(mention(<<" ", "h", "i", " ", "a">>), "C1"),
           event(mention(<<>>), "C1"),
           event(w_clear \o sp \o bot_id_regex, "C1"),
           event(w_add \o <<" ", "a">>, "C1"),
           event(<<>>, "C1"),
           no_text("C1"),
           event(mention(sp \o w_list), "C2"),
           event(mention(sp \o w_add \o <<" ", "b">>), "C2"),
           event(w_clear, "C2"),
           no_text("C2") }

\* the messages of a run in which the twitter stream calls back
RelayFeed ==
    { event(mention(sp \o w_add \o <<" ", "a">>), "C1"),
      event(mention(sp \o w_add \o <<" ", "b">>), "C2"),
      event(mention(sp \o w_clear), "C1"),
      event(mention(sp \o w_list), "C2") }

Feeds == {"filters", "session", "relay"}

Feed(name) ==
    CASE name = "filters" -> FilterFeed
      [] name = "session" -> SessionFeed
      [] name = "relay" -> RelayFeed

Data == FilterFeed \cup SessionFeed \cup RelayFeed

\* a tweet: is it a retweet (it has a 'retweeted_status'), and its text
Tweets ==
    { [retweeted |-> FALSE, text |-> <<"t">>],
      [retweeted |-> TRUE, text |-> <<"R", "T">>] }

\* the tweets the stream of a run delivers
Statuses(name) == IF name = "relay" THEN Tweets ELSE {}

\* the status codes the stream of a run reports
StatusCodes(name) == IF name = "relay" THEN {RateLimited, 500} ELSE {}

\* the functions the wiring code of a run registers as stream handler
Funcs(name) ==
    IF name = "relay" THEN {"returns_True", "returns_False"} ELSE {}

\* the OS signals that have a handler attached
Signals == {"SIGINT", "SIGTERM", "SIGHUP"}

NoData == [has_text |-> FALSE, text |-> <<>>, channel |-> ""]

\* the record of an event that is not a callback of the stream
NoCall == [calls |-> 0, result |-> "none", exc |-> "none"]

\* the record of an event that is not a message
Event(name, data, fs, out) ==
    [event |-> name, data |-> data, filters |-> fs,
     after |-> [cmd |-> "other", changed |-> FALSE], out |-> out]

-----------------------------------------------------------------------------
(* handle_message. *)

\* a step made by a thread that read or wrote these session attributes
Access(thread, attributes) == [thread |-> thread, state |-> attributes]

\* the session attributes the dispatch of a mention reads or writes:
\* check_channel_change and every reply use current_channel, and the add,
\* del, clear and list handlers use filters
attributes_of(cmd) ==
    {"current_channel"}
    \cup (IF cmd \in {"add", "del", "clear", "list"} THEN {"filters"} ELSE {})

\* data.get('text', None) is truthy
has_text(data) == data.has_text /\ data.text # <<>>

\* is_at_bot without the search for the mention
is_at_bot_any_text(data) == data.has_text /\ data.text # <<>>

\* is_at_bot
is_at_bot(data) == has_text(data) /\ re_search(bot_id_regex, data.text)

\* the command word list
command_of(data) == split(strip(re_sub(bot_id_regex, data.text)))

\* is_at_bot and the command of every payload of the model, computed once
parsed ==
    [data \in Data |->
        [is_at_bot |-> is_at_bot(data),
         command   |-> IF is_at_bot(data) THEN command_of(data) ELSE <<>>]]

\* the branch of handle_message a command word list takes
command_kind(command) ==
    IF Len(command) = 1
    THEN CASE command[1] = w_help -> "help"
           [] command[1] = w_ping -> "ping"
           [] command[1] \in {w_exit, w_quit} -> "exit"
           [] command[1] = w_list -> "list"
           [] command[1] = w_clear -> "clear"
           [] OTHER -> "unknown"
    ELSE IF Len(command) > 1
    THEN CASE command[1] = w_add -> "add"
           [] command[1] = w_del -> "del"
           [] OTHER -> "unknown"
    ELSE "unknown"

\* what a recorded event was: "none" before the first event, "ignored" for
\* a message that does not mention the bot, else the branch taken
kind(l) ==
    IF l.event # "message" THEN "none"
    ELSE IF ~parsed[l.data].is_at_bot THEN "ignored"
    ELSE command_kind(parsed[l.data].command)

\* a dispatch that notifies the relay also when the handler raised
finish_always(o, notify) ==
    LET exc == IF notify /\ twitter_client = "None" THEN "AttributeError"
               ELSE o.exc
        c   == IF notify /\ twitter_client # "None"
               THEN create_filtered_stream(stream, opened, o.filters)
               ELSE [stream |-> stream, opened |-> opened]
    IN  /\ filters' = o.filters
        /\ sent' = o.sent
        /\ stream' = c.stream
        /\ opened' = c.opened
        /\ raised' = exc
        /\ loop' = IF exc = "none" THEN loop ELSE "stopped"
        /\ cleanups' = IF exc = "none" THEN cleanups ELSE cleanups + 1

\* the end of a dispatch: o is what the command's handler left, and the
\* relay is notified when the handler returned and the command changes
\* filters; an exception leaves run_until_complete and run() cleans up
finish(o, notify) ==
    LET call == notify /\ o.exc = "none"
        exc  == IF call /\ twitter_client = "None" THEN "AttributeError"
                ELSE o.exc
        c    == IF call /\ twitter_client # "None"
                THEN create_filtered_stream(stream, opened, o.filters)
                ELSE [stream |-> stream, opened |-> opened]
    IN  /\ filters' = o.filters
        /\ sent' = o.sent
        /\ stream' = c.stream
        /\ opened' = c.opened
        /\ raised' = exc
        /\ loop' = IF exc = "none" THEN loop ELSE "stopped"
        /\ cleanups' = IF exc = "none" THEN cleanups ELSE cleanups + 1

\* random.randint(0, n - 1); a send that raises drops the message, so one
\* draw stands for all of them there
randint(n, res) == IF res = "ok" THEN 0..(n - 1) ELSE {0}

\* the dispatch on the command words
dispatch(command, channel, res) ==
    IF Len(command) = 1
    THEN CASE command[1] = w_help ->
                finish(handle_help(filters, channel,
                                   "Hi! Here's what I can do...", res), FALSE)
           [] command[1] = w_ping ->
                \E rand_num \in randint(Len(ping_messages), res) :
                    finish(handle_ping(filters, channel, rand_num, res), FALSE)
           [] command[1] \in {w_exit, w_quit} ->
                \E rand_num \in randint(Len(exit_messages), res) :
                    finish(handle_exit(filters, channel, rand_num, res), FALSE)
           [] command[1] = w_list ->
                finish(handle_list(filters, channel, res), FALSE)
           [] command[1] = w_clear ->
                finish(handle_clear(filters, channel, res), TRUE)
           [] OTHER ->
                \E rand_num \in randint(Len(comments), res) :
                    finish(handle_unknown(filters, channel, rand_num, res),
                           FALSE)
    ELSE IF Len(command) > 1
    THEN CASE command[1] = w_add ->
                finish(handle_add(filters, channel, Tail(command), res), TRUE)
           [] command[1] = w_del ->
                finish(handle_del(filters, channel, Tail(command), res), TRUE)
           [] OTHER ->
                \E rand_num \in randint(Len(comments), res) :
                    finish(handle_unknown(filters, channel, rand_num, res),
                           FALSE)
    ELSE \E rand_num \in randint(Len(comments), res) :
             finish(handle_unknown(filters, channel, rand_num, res), FALSE)

\* a check_channel_change that never stores the channel
check_channel_change_keep(channel) ==
    current_channel' = current_channel

check_channel_change(channel) ==
    current_channel' = IF current_channel # channel THEN channel
                       ELSE current_channel

\* the add commands the model feeds keep the list within MaxFilters
WithinBounds(data) ==
    LET command == parsed[data].command
    IN  (parsed[data].is_at_bot /\ Len(command) > 1 /\ command[1] = w_add)
        => Len(add_loop(filters, parse_filters(Tail(command)), <<>>).filters)
               <= MaxFilters

handle_message(data) ==
    /\ loop = "running"
    /\ WithinBounds(data)
    /\ last' = [event |-> "message", data |-> data, filters |-> filters,
                after |-> [cmd |-> IF kind(last) \in {"add", "del", "clear"}
                                   THEN kind(last) ELSE "other",
                           changed |-> last.filters # filters],
                out |-> NoCall]
    /\ IF parsed[data].is_at_bot
       THEN /\ check_channel_change(data.channel)
            /\ \E res \in SendResults :
                   dispatch(parsed[data].command, current_channel', res)
       ELSE /\ sent' = <<>>
            /\ raised' = "none"
            /\ UNCHANGED <<filters, current_channel, stream, opened, loop,
                           cleanups>>
    /\ access' = Access("MainThread",
                        IF parsed[data].is_at_bot
                        THEN attributes_of(
                                 command_kind(parsed[data].command))
                        ELSE {})
    /\ UNCHANGED <<twitter_client, stream_handler, signal_handler, feed>>

\* the 'hello' event of a connection that succeeded: handle_hello sends
\* "I'm Alive!" to the channel it names; an exception of the send leaves
\* run_until_complete and run() cleans up
handle_hello ==
    /\ loop = "connecting"
    /\ \E res \in SendResults :
           LET o == Outcome(filters,
                            Message("robs-test-channel", "hello",
                                    "I'm Alive!", <<>>),
                            res)
           IN  /\ sent' = o.sent
               /\ raised' = o.exc
               /\ loop' = IF o.exc = "none" THEN "running" ELSE "stopped"
               /\ cleanups' = IF o.exc = "none" THEN cleanups
                              ELSE cleanups + 1
    /\ last' = Event("hello", NoData, filters, NoCall)
    /\ access' = Access("MainThread", {})
    /\ UNCHANGED <<filters, current_channel, twitter_client, stream,
                   stream_handler, signal_handler, opened, feed>>

\* the 'goodbye' event: handle_goodbye calls self.run() inside the loop
\* that run() started; run_until_complete refuses a loop that is running
\* (RuntimeError), the finally of that run() calls log_banner_stop, and the
\* error, which no clause of run() names, leaves the handler and the outer
\* run_until_complete, whose finally calls log_banner_stop again
handle_goodbye ==
    /\ loop = "running"
    /\ signal_handler' = "SlackClient"
    /\ raised' = "RuntimeError"
    /\ cleanups' = cleanups + 2
    /\ loop' = "stopped"
    /\ sent' = <<>>
    /\ last' = Event("goodbye", NoData, filters, NoCall)
    /\ access' = Access("MainThread", {})
    /\ UNCHANGED <<filters, current_channel, twitter_client, stream,
                   stream_handler, opened, feed>>

\* an OS signal reaches the process while the loop runs: the handler of
\* SlackClient cancels the future, and run() leaves run_until_complete by
\* CancelledError and cleans up; the handler of slacktweet.py only logs;
\* without a handler the signal ends the process
os_signal_handler(sig) ==
    /\ loop \in {"connecting", "running"}
    /\ last' = Event("signal", sig, filters, NoCall)
    /\ access' = Access("MainThread", {})
    /\ sent' = <<>>
    /\ CASE signal_handler = "SlackClient" ->
               /\ raised' = "CancelledError"
               /\ cleanups' = cleanups + 1
               /\ loop' = "stopped"
         [] signal_handler = "slacktweet" ->
               UNCHANGED <<raised, cleanups, loop>>
         [] OTHER ->
               /\ raised' = "killed"
               /\ loop' = "stopped"
               /\ UNCHANGED cleanups
    /\ UNCHANGED <<filters, current_channel, twitter_client, stream,
                   stream_handler, signal_handler, opened, feed>>

\* the thread of the stream delivers a tweet to on_status; the thread was
\* started by create_filtered_stream (is_async=True) and nothing ties it to
\* the main loop, so it also delivers after run() has returned, until the
\* process ends
stream_on_status(tweet) ==
    /\ stream.is_set /\ stream.running
    /\ \E res \in SendResults :
           LET o == on_status(stream_handler, current_channel, tweet, res)
           IN  /\ sent' = o.sent
               /\ stream' = after_callback(stream, o.result, o.exc)
               /\ last' = Event("status", tweet, filters,
                                [calls |-> o.calls, result |-> o.result,
                                 exc |-> o.exc])
               /\ access' = Access("StreamThread",
                                   IF o.calls = 1
                                      /\ stream_handler = "tweet_handler"
                                   THEN {"current_channel"} ELSE {})
    /\ UNCHANGED <<filters, current_channel, twitter_client, stream_handler,
                   signal_handler, opened, loop, raised, cleanups, feed>>

\* the thread of the stream reports a status code to on_error
stream_on_error(status_code) ==
    /\ stream.is_set /\ stream.running
    /\ \E result \in on_error(status_code) :
           /\ stream' = after_callback(stream, result, "none")
           /\ last' = Event("error", status_code, filters,
                            [calls |-> 0, result |-> result, exc |-> "none"])
    /\ sent' = <<>>
    /\ access' = Access("StreamThread", {})
    /\ UNCHANGED <<filters, current_channel, twitter_client, stream_handler,
                   signal_handler, opened, loop, raised, cleanups, feed>>

-----------------------------------------------------------------------------
(* The wiring and the main loop. *)

\* called by the wiring code before run() blocks
register_twitter_client ==
    /\ loop = "created"
    /\ twitter_client' = "registered"
    /\ stream_handler' = "tweet_handler"
    /\ UNCHANGED <<filters, current_channel, stream, signal_handler, opened,
                   loop, raised, cleanups, sent, last, access, feed>>

\* TwitterClient.register_stream_handler, called by the wiring code
register_stream_handler(func) ==
    /\ loop = "created"
    /\ stream_handler' = func
    /\ UNCHANGED <<filters, current_channel, twitter_client, stream,
                   signal_handler, opened, loop, raised, cleanups, sent,
                   last, access, feed>>

\* config_signal_handlers of slacktweet.py, called by its main()
config_signal_handlers ==
    /\ loop = "created"
    /\ signal_handler' = "slacktweet"
    /\ UNCHANGED <<filters, current_channel, twitter_client, stream,
                   stream_handler, opened, loop, raised, cleanups, sent,
                   last, access, feed>>

\* a run() that does not attach the signal handlers of the session
run_without_handlers ==
    /\ loop = "created"
    /\ loop' = "connecting"
    /\ UNCHANGED <<filters, current_channel, twitter_client, stream,
                   stream_handler, signal_handler, opened, raised, cleanups,
                   sent, last, access, feed>>

\* run() attaches the signal handlers of the session and enters
\* run_until_complete
run ==
    /\ loop = "created"
    /\ signal_handler' = "SlackClient"
    /\ loop' = "connecting"
    /\ UNCHANGED <<filters, current_channel, twitter_client, stream,
                   stream_handler, opened, raised, cleanups, sent, last,
                   access, feed>>

Init ==
    /\ filters = <<>>
    /\ current_channel = ""
    /\ twitter_client = "None"
    /\ stream = NoStream
    /\ stream_handler = "None"
    /\ signal_handler = "default"
    /\ opened = 0
    /\ loop = "created"
    /\ raised = "none"
    /\ cleanups = 0
    /\ sent = <<>>
    /\ last = Event("none", NoData, <<>>, NoCall)
    /\ access = Access("MainThread", {})
    /\ feed \in Feeds

Next ==
    \/ config_signal_handlers
    \/ register_twitter_client
    \/ \E func \in Funcs(feed) : register_stream_handler(func)
    \/ run
    \/ handle_hello
    \/ \E data \in Feed(feed) : handle_message(data)
    \/ handle_goodbye
    \/ \E sig \in Signals : os_signal_handler(sig)
    \/ \E tweet \in Statuses(feed) : stream_on_status(tweet)
    \/ \E status_code \in StatusCodes(feed) : stream_on_error(status_code)

Spec == Init /\ [][Next]_vars

-----------------------------------------------------------------------------
(* Vocabulary of the properties. *)

Range(list) == {list[i] : i \in 1..Len(list)}

NoDuplicates(list) ==
    \A i, j \in 1..Len(list) : i # j => list[i] # list[j]

\* the words after the command word of the event l
words_of(l) == Tail(parsed[l.data].command)

\* the last dispatch returned without an exception
returned == raised = "none"

\* the terms of T that are not in F, each once, in the order supplied
RECURSIVE NewTermsFrom(_, _, _)
NewTermsFrom(F, T, i) ==
    IF i > Len(T) THEN <<>>
    ELSE (IF ~In(T[i], F) /\ \A j \in 1..(i - 1) : T[j] # T[i]
          THEN <<T[i]>> ELSE <<>>) \o NewTermsFrom(F, T, i + 1)

NewTerms(F, T) == NewTermsFrom(F, T, 1)

\* the terms of F that are not in T, in the order of F
Remaining(F, T) == SelectSeq(F, LAMBDA t : ~In(t, T))

\* the lines of a text
Lines(text) == split_sep(text, "\n")

\* the terms a confirmation lists: every term is followed by a newline
Listed(text) ==
    LET pieces == Lines(text) IN SubSeq(pieces, 1, Len(pieces) - 1)

\* the parsing rule as the documentation states it: the words joined with
\* single spaces, split on commas, each piece trimmed
documented_terms(words) ==
    LET pieces == split_sep(join(<<" ">>, words), ",")
    IN  [i \in 1..Len(pieces) |-> strip(pieces[i])]

t_a == <<"a">>
t_b == <<"b">>
t_c == <<"c">>

-----------------------------------------------------------------------------
(* C1..C10. *)

\* C1: after every add, del or clear command that handle_message handled
\* to the end, the track terms of the stream equal the filter list, also
\* when a stream was already set at the time of the command.
C1_TrackTermsEqualFilters ==
    (kind(last) \in {"add", "del", "clear"} /\ returned /\
     twitter_client = "registered")
        => (stream.is_set /\ stream.track = filters)

\* C2: there is never more than one stream, and a create_filtered_stream
\* call made while a stream is set opens none and leaves the stream and
\* its track terms as they were.
C2_OneStreamAndCreateIsNoOp ==
    /\ [](opened <= 1 /\ (stream.is_set <=> opened = 1))
    /\ [][(/\ loop = "running"
           /\ kind(last') \in {"add", "del", "clear"}
           /\ raised' = "none"
           /\ stream.is_set)
          => (stream' = stream /\ opened' = opened)]_vars

\* a create_filtered_stream call was made on a stream set earlier with
\* other terms
C2_Witness ==
    /\ kind(last) = "add" /\ returned
    /\ stream.is_set /\ opened = 1
    /\ stream.track # filters

\* C3: the filter list never holds the same term twice.
C3_NoDuplicateFilters == NoDuplicates(filters)

\* an add command that names a term twice was handled
C3_Witness ==
    /\ kind(last) = "add" /\ returned
    /\ ~NoDuplicates(parse_filters(words_of(last)))
    /\ last.filters = <<>> /\ filters = <<t_a>>

\* C4: a list command handled right after an add command shows, one per
\* line, the filters held before the add in their order, followed by the
\* supplied terms that were not among them, each once.
C4_AddThenList ==
    [][(/\ kind(last) = "add" /\ returned
        /\ kind(last') = "list" /\ sent' # <<>>)
       => Lines(sent'[1].body) =
              last.filters
              \o NewTerms(last.filters, parse_filters(words_of(last)))]_vars

\* a list was shown right after an add that added to a list that was not
\* empty
C4_Witness ==
    /\ kind(last) = "list" /\ sent # <<>>
    /\ last.after.cmd = "add" /\ last.after.changed
    /\ Len(filters) = 3
    /\ Lines(sent[1].body) = filters

\* C5: a list command handled right after a del command shows exactly the
\* filters held before the del that the del did not name ("None" when
\* there is none), and a del that names no held filter leaves the list
\* as it was.
C5_DelThenList ==
    [][/\ (/\ kind(last) = "del" /\ returned
           /\ kind(last') = "list" /\ sent' # <<>>)
          => LET left == Remaining(last.filters,
                                   parse_filters(words_of(last)))
             IN  /\ left # <<>> => Lines(sent'[1].body) = left
                 /\ left = <<>> => sent'[1].body = w_None
       /\ (/\ loop = "running" /\ kind(last') = "del"
           /\ \A t \in Range(parse_filters(words_of(last'))) :
                  ~In(t, filters))
          => filters' = filters]_vars

\* a list was shown right after a del that removed filters and left some
C5_Witness ==
    /\ kind(last) = "list" /\ sent # <<>>
    /\ last.after.cmd = "del" /\ last.after.changed
    /\ filters = <<t_b>>
    /\ sent[1].body = t_b

\* C6: a clear command leaves the filter list empty, and a list command
\* handled right after it replies "None".
C6_ClearThenList ==
    /\ kind(last) = "clear" => filters = <<>>
    /\ (kind(last) = "list" /\ last.after.cmd = "clear" /\ sent # <<>>)
       => sent[1].body = w_None

\* a list was shown right after a clear that emptied a list
C6_Witness ==
    /\ kind(last) = "list" /\ sent # <<>>
    /\ last.after.cmd = "clear" /\ last.after.changed

\* C7: an add or del command acts on the terms obtained by joining the
\* words after the command word with single spaces, splitting on commas
\* and trimming each piece, also when one word follows the command word.
C7_TermsSplitOnCommas ==
    /\ (kind(last) = "add" /\ returned)
       => filters =
              last.filters
              \o NewTerms(last.filters, documented_terms(words_of(last)))
    /\ (kind(last) = "del" /\ returned)
       => filters = Remaining(last.filters, documented_terms(words_of(last)))

\* C8: 'add a,b , c' on an empty filter list yields the terms a, b and c,
\* and no filter ever starts or ends with whitespace.
C8_IrregularSpacing ==
    /\ (/\ kind(last) = "add"
        /\ last.data.text =
               mention(sp \o w_add
                       \o <<" ", "a", ",", "b", " ", ",", " ", "c">>)
        /\ last.filters = <<>>)
       => filters = <<t_a, t_b, t_c>>
    /\ \A i \in 1..Len(filters) : strip(filters[i]) = filters[i]

\* 'add a,b , c' was handled on an empty filter list
C8_Witness ==
    /\ kind(last) = "add" /\ returned
    /\ last.data.text =
           mention(sp \o w_add \o <<" ", "a", ",", "b", " ", ",", " ", "c">>)
    /\ last.filters = <<>>
    /\ Len(filters) = 3

\* C9: the reply to an add command lists, each once, exactly the terms
\* that were not filters before it and are after it, and the reply to a
\* del command exactly those that were filters before it and are not
\* after it.
C9_ReplyListsChanges ==
    /\ (kind(last) = "add" /\ sent # <<>>)
       => /\ Range(Listed(sent[1].body)) =
                 Range(filters) \ Range(last.filters)
          /\ NoDuplicates(Listed(sent[1].body))
    /\ (kind(last) = "del" /\ sent # <<>>)
       => /\ Range(Listed(sent[1].body)) =
                 Range(last.filters) \ Range(filters)
          /\ NoDuplicates(Listed(sent[1].body))

\* an add was answered that named a filter already held and a new one
C9_Witness ==
    /\ kind(last) = "add" /\ sent # <<>>
    /\ Listed(sent[1].body) # <<>>
    /\ \E t \in Range(parse_filters(words_of(last))) : In(t, last.filters)

\* C10: the dispatch of a message without text, or whose text does not
\* hold the mention of the bot, sends nothing and leaves the filter list,
\* the channel and the stream as they were.
C10_OtherMessagesIgnored ==
    [][(/\ loop = "running"
        /\ last'.event = "message"
        /\ \/ ~last'.data.has_text
           \/ ~re_search(bot_id_regex, last'.data.text))
       => /\ sent' = <<>>
          /\ filters' = filters
          /\ current_channel' = current_channel
          /\ stream' = stream
          /\ opened' = opened]_vars

\* a message that names a command without mentioning the bot was
\* dispatched on another channel than the current one, with filters and a
\* stream set
C10_Witness ==
    /\ last.event = "message"
    /\ last.data.has_text /\ last.data.text = w_clear
    /\ last.data.channel # current_channel
    /\ filters # <<>> /\ stream.is_set

\* C11: the dispatch of a mention makes the channel of the mention the
\* current channel before the command is handled, so that every reply of
\* the dispatch goes to that channel, and no other step changes the
\* current channel.
C11_ChannelFollowsMentions ==
    [][/\ (/\ loop = "running"
           /\ kind(last') \notin {"none", "ignored"})
          => /\ current_channel' = last'.data.channel
             /\ \A i \in 1..Len(sent') :
                    sent'[i].channel = last'.data.channel
       /\ current_channel' # current_channel
          => /\ loop = "running"
             /\ kind(last') \notin {"none", "ignored"}]_vars

\* a list command on C2 was answered there right after the 'add a' that
\* was handled on C1
C11_Witness ==
    /\ kind(last) = "list" /\ sent # <<>>
    /\ last.data.channel = "C2"
    /\ last.after.cmd = "add" /\ filters = <<t_a>>
    /\ current_channel = "C2" /\ sent[1].channel = "C2"

\* the command words the bot knows
KnownWords == {w_help, w_ping, w_exit, w_quit, w_list, w_clear, w_add, w_del}

\* the command words of a mention that names no command: none at all, an
\* unknown word alone or followed by others, add or del alone, or list
\* followed by other words
Unrecognised(command) ==
    \/ command = <<>>
    \/ Len(command) = 1 /\ command[1] \notin KnownWords
    \/ Len(command) > 1 /\ command[1] \notin KnownWords
    \/ Len(command) = 1 /\ command[1] \in {w_add, w_del}
    \/ Len(command) > 1 /\ command[1] = w_list

\* C12: the dispatch of a mention that names no command (no word, an
\* unknown word alone or with others, add or del without an argument,
\* list followed by other words) makes one send, whose delivery is one
\* reply that opens with one of the six comments, and leaves the filter
\* list and the stream as they were.
C12_UnknownAnsweredOnce ==
    [][(/\ loop = "running"
        /\ last'.event = "message"
        /\ parsed[last'.data].is_at_bot
        /\ Unrecognised(parsed[last'.data].command))
       => /\ filters' = filters
          /\ stream' = stream
          /\ opened' = opened
          /\ raised' = "none"
             => /\ Len(sent') = 1
                /\ sent'[1].header \in Range(comments)
          /\ raised' # "none"
             => /\ raised' \in SlackErrors
                /\ sent' = <<>>]_vars

\* 'list a' was answered with a comment while filters and a stream were set
C12_Witness ==
    /\ last.event = "message"
    /\ last.data.text = mention(sp \o w_list \o <<" ", "a">>)
    /\ Len(sent) = 1 /\ sent[1].header \in Range(comments)
    /\ filters # <<>> /\ stream.is_set

\* C13: the dispatch of 'exit' and the dispatch of 'quit' each make one
\* send, of one of the five farewells to the current channel, and when it
\* is delivered the future is cancelled; after either command the main
\* loop has stopped.
C13_ExitAndQuitStopTheLoop ==
    \A w \in {w_exit, w_quit} :
        (/\ last.event = "message"
         /\ parsed[last.data].is_at_bot
         /\ parsed[last.data].command = <<w>>)
        => /\ loop = "stopped"
           /\ sent # <<>>
              => /\ Len(sent) = 1
                 /\ sent[1].header \in Range(exit_messages)
                 /\ sent[1].body = <<>>
                 /\ sent[1].channel = current_channel
                 /\ raised = "CancelledError"
           /\ sent = <<>> => raised \in SlackErrors

\* 'quit' was answered with a farewell and the loop stopped
C13_Witness ==
    /\ last.event = "message"
    /\ parsed[last.data].command = <<w_quit>>
    /\ Len(sent) = 1 /\ sent[1].header = exit_messages[5]
    /\ raised = "CancelledError"
    /\ loop = "stopped" /\ cleanups = 1

\* C14: log_banner_stop runs once, and only once, in a run of the
\* process, whatever stops the main loop: exit or quit, an OS signal, an
\* exception of the Slack client, or 'goodbye' events handled before.
C14_CleanupExactlyOnce ==
    /\ cleanups <= 1
    /\ loop = "stopped" => cleanups = 1

\* C15: an exception of the Slack client raised while a message is
\* dispatched ends that dispatch only: the main loop goes on, and
\* log_banner_stop is not called.
C15_SlackErrorEndsOneDispatch ==
    (last.event = "message" /\ raised \in SlackErrors)
    => /\ loop = "running"
       /\ cleanups = 0

\* C16: after a 'goodbye' event the session connects again and dispatches
\* the mentions that follow; a main loop that has stopped does not run
\* again, so after a 'goodbye' the main loop has not stopped.
C16_ReconnectAfterGoodbye ==
    last.event = "goodbye" => (loop = "running" /\ raised = "none")

\* C17: an OS signal (SIGINT, SIGTERM, SIGHUP) delivered while the main
\* loop runs cancels the future, the main loop stops by that cancellation,
\* and log_banner_stop has run.
C17_SignalStopsTheLoop ==
    last.event = "signal"
    => /\ raised = "CancelledError"
       /\ loop = "stopped"
       /\ cleanups = 1

\* SIGTERM stopped a session that held filters and a stream
C17_Witness ==
    /\ last.event = "signal" /\ last.data = "SIGTERM"
    /\ signal_handler = "SlackClient"
    /\ filters # <<>> /\ stream.is_set
    /\ loop = "stopped" /\ cleanups = 1

\* C18: on_status does not call the stream handler for a retweet, and
\* answers True, so that the stream goes on, whatever the handler is.
C18_RetweetsNotHandled ==
    (last.event = "status" /\ last.data.retweeted)
    => /\ last.out.calls = 0
       /\ last.out.result = "True"
       /\ last.out.exc = "none"
       /\ sent = <<>>
       /\ stream.running

\* a retweet was delivered while the handler was one that answers False
C18_Witness ==
    /\ last.event = "status" /\ last.data.retweeted
    /\ stream_handler = "returns_False"
    /\ last.out.calls = 0 /\ stream.running

\* C19: for a tweet that is not a retweet on_status calls the stream
\* handler once and answers what the handler answers, and the answer False
\* stops the stream; with tweet_handler of the session registered, a tweet
\* whose send is delivered reaches the current channel and the stream goes
\* on.
C19_TweetsHandledOnce ==
    (last.event = "status" /\ ~last.data.retweeted
     /\ stream_handler # "None")
    => /\ last.out.calls = 1
       /\ last.out.exc = "none"
          => last.out.result =
                 call_handler(stream_handler, current_channel, last.data,
                              "ok").result
       /\ last.out.result = "False" => ~stream.running
       /\ (stream_handler = "tweet_handler" /\ last.out.exc = "none")
          => /\ sent = <<Message(current_channel, "tweet", "",
                                 last.data.text)>>
             /\ stream.running

\* a tweet was relayed by tweet_handler to channel C2, and the stream
\* goes on
C19_Witness ==
    /\ last.event = "status" /\ ~last.data.retweeted
    /\ stream_handler = "tweet_handler"
    /\ last.out.calls = 1 /\ last.out.result = "None"
    /\ Len(sent) = 1 /\ sent[1].channel = "C2"
    /\ sent[1].body = last.data.text
    /\ stream.running

\* C20: after on_error was given the status code 420 the twitter client
\* holds no stream: the create_filtered_stream call of the add, del or
\* clear command that follows opens a new stream that tracks the filters
\* it is given.
C20_NewStreamAfterRateLimit ==
    [][(/\ last.event = "error" /\ last.data = RateLimited
        /\ kind(last') \in {"add", "del", "clear"}
        /\ raised' = "none")
       => /\ opened' = opened + 1
          /\ stream'.running
          /\ stream'.track = filters']_vars

\* C21: the filter list changes only in the dispatch of an add, del or
\* clear command: the help, ping, list, exit and quit commands, the
\* delivery of a tweet, and every other step leave it as it was.
C21_OnlyFilterCommandsChangeFilters ==
    [][filters' # filters
       => /\ loop = "running"
          /\ kind(last') \in {"add", "del", "clear"}]_vars

\* a tweet was relayed while filters were set
C21_Witness ==
    /\ last.event = "status" /\ last.out.calls = 1
    /\ sent # <<>>
    /\ filters = <<t_a, t_b>> /\ last.filters = filters

\* the filter list a command leaves, from the list F it finds and the
\* terms T it names
Updated(cmd, F, T) ==
    CASE cmd = "add" -> F \o NewTerms(F, T)
      [] cmd = "del" -> Remaining(F, T)
      [] cmd = "clear" -> <<>>

\* the terms an add or del command names, as the code parses them
terms_of(l) ==
    IF kind(l) = "clear" THEN <<>> ELSE parse_filters(words_of(l))

\* C25: the dispatch of an add, del or clear command updates the filter
\* list, then sends the confirmation, then notifies the twitter client:
\* when the send raises, the filter list is updated all the same and
\* create_filtered_stream is not called; when the send is delivered, the
\* registered twitter client holds a stream afterwards.
C25_UpdateReplyNotify ==
    [][(/\ loop = "running"
        /\ kind(last') \in {"add", "del", "clear"})
       => /\ filters' = Updated(kind(last'), filters, terms_of(last'))
          /\ raised' \in SlackErrors
             => /\ sent' = <<>>
                /\ stream' = stream
                /\ opened' = opened
          /\ (sent' # <<>> /\ twitter_client = "registered")
             => stream'.is_set]_vars

\* the confirmation of the first add raised: the term is a filter and no
\* stream was opened
C25_Witness ==
    /\ kind(last) = "add" /\ raised \in SlackErrors
    /\ twitter_client = "registered"
    /\ last.filters = <<>> /\ filters = <<t_a>>
    /\ ~stream.is_set /\ opened = 0

\* C26: an add, del or clear command handled while no twitter client is
\* registered ends without an exception when its confirmation is
\* delivered: the filter list is updated and the main loop goes on.
C26_NoTwitterClientNoError ==
    (/\ kind(last) \in {"add", "del", "clear"}
     /\ twitter_client = "None"
     /\ sent # <<>>)
    => /\ raised = "none"
       /\ loop = "running"
       /\ filters = Updated(kind(last), last.filters, terms_of(last))

\* C27: no term of the filter list is the empty string, whatever commands
\* were handled, also after 'add a, ,b'.
C27_NoEmptyTerm ==
    \A i \in 1..Len(filters) : filters[i] # <<>>

\* the state of the connection to Slack, as the main loop shows it
connectionState ==
    CASE loop = "created" -> "Disconnected"
      [] loop = "connecting" -> "Connecting"
      [] loop = "running" -> "Connected"
      [] loop = "stopped" -> "Disconnected"

\* C22: every step that reads or writes the filter list, the current
\* channel or the connection state is made by the thread of the main
\* loop, also the delivery of a tweet to the handler of the session.
C22_SessionStateOnOneThread ==
    access.state # {} => access.thread = "MainThread"

\* C23: a message is sent to Slack only while the connection is
\* established (from the 'hello' event on): not before, not after a
\* 'goodbye', and not after the main loop was cancelled or has stopped.
C23_SendsOnlyWhileConnected ==
    [][sent' # <<>>
       => \/ connectionState = "Connected"
          \/ connectionState = "Connecting" /\ last'.event = "hello"]_vars

\* C24: while the twitter client holds a stream the current channel is
\* not the empty string the session starts with, and no tweet and no
\* reply is sent to the empty channel.
C24_ChannelSetWhileStreaming ==
    /\ stream.is_set => current_channel # ""
    /\ \A i \in 1..Len(sent) : sent[i].channel # ""

\* a tweet was relayed to channel C1, the channel of the command that
\* opened the stream
C24_Witness ==
    /\ last.event = "status" /\ Len(sent) = 1
    /\ sent[1].kind = "tweet" /\ sent[1].channel = "C1"
    /\ current_channel = "C1"
    /\ stream.running /\ opened = 1

=============================================================================
